---- MODULE Spec2Model ----
(***************************************************************************)
(* A model of go-assets: the in-memory asset file system (filesystem.go,   *)
(* file.go) and the generator that collects a directory tree and emits the *)
(* file system's initialisation (the Generator).                           *)
(*                                                                         *)
(* Strings are sequences of one-character strings, so that path.Join,      *)
(* path.Clean, path.Dir, path.Base and strings.TrimPrefix act on           *)
(* characters, as they do in the code.  Byte slices are sequences of       *)
(* numbers.                                                                *)
(***************************************************************************)
EXTENDS Integers, Sequences, FiniteSets, TLC

VARIABLES
    Files,       \* FileSystem.Files: path -> File object (Path, FileMode, MTime, Data, buf)
    Dirs,        \* FileSystem.Dirs: directory path -> child names
    handle,      \* per caller: the *File it holds (the key of the object in Files), or NoFile
    last,        \* the last runtime operation: its arguments and what it returned
    hist,        \* history, per regular file: the reads made since the last Open of it
    panicked,    \* a run-time panic was raised (the goroutine is gone)
    fsFilesMap,  \* Generator.fsFilesMap: path -> os.FileInfo
    fsDirsMap,   \* Generator.fsDirsMap: path -> child names
    StripPrefix, \* Generator.StripPrefix
    Compressed,  \* Generator.Compressed
    adds,        \* number of Add calls made on the generator
    addErr,      \* the error the last Add returned
    written,     \* Write has emitted the initialisation
    outDirs,     \* the emitted FileSystem.Dirs literal
    outFiles     \* the emitted FileSystem.Files literal

rtVars  == <<Files, Dirs, handle, last, hist, panicked>>
genVars == <<fsFilesMap, fsDirsMap, StripPrefix, Compressed, adds, addErr,
             written, outDirs, outFiles>>
vars    == <<Files, Dirs, handle, last, hist, panicked, fsFilesMap, fsDirsMap,
             StripPrefix, Compressed, adds, addErr, written, outDirs, outFiles>>

----------------------------------------------------------------------------
(* Bounds *)

MaxLen == 2          \* longest file content in the run-time file system
MaxBuf == 2          \* longest read buffer
MaxOff == 1          \* largest seek offset (offsets range over -MaxOff..MaxOff)
MaxPast == 1         \* seeks are explored up to this far past the end of the data
MaxIndex == 3        \* largest start index given to readDir
MaxCount == 2        \* largest count given to readDir
MaxAdds == 3         \* Add calls on one generator

----------------------------------------------------------------------------
(* Strings and the path package *)

Slash == "/"
Dot   == "."

Min(a, b) == IF a < b THEN a ELSE b

Take(s, n) == SubSeq(s, 1, Min(n, Len(s)))
Drop(s, n) == SubSeq(s, n + 1, Len(s))

Range(s) == {s[i] : i \in 1..Len(s)}

\* strings.HasPrefix / strings.TrimPrefix
HasPrefix(s, prefix) ==
    Len(s) >= Len(prefix) /\ SubSeq(s, 1, Len(prefix)) = prefix

TrimPrefix(s, prefix) ==
    IF HasPrefix(s, prefix) THEN Drop(s, Len(prefix)) ELSE s

\* The path elements of s: the pieces between its slashes.
RECURSIVE SplitPath(_)
SplitPath(s) ==
    IF \A i \in 1..Len(s) : s[i] # Slash
    THEN <<s>>
    ELSE LET k == CHOOSE i \in 1..Len(s) :
                      s[i] = Slash /\ \A j \in 1..(i - 1) : s[j] # Slash
         IN  <<SubSeq(s, 1, k - 1)>> \o SplitPath(Drop(s, k))

RECURSIVE JoinWith(_)
JoinWith(elems) ==
    IF Len(elems) = 0 THEN <<>>
    ELSE IF Len(elems) = 1 THEN elems[1]
    ELSE elems[1] \o <<Slash>> \o JoinWith(Tail(elems))

\* path.Clean's pass over the elements: "" and "." are dropped, ".." removes
\* the element before it (or is kept, on a path that is not rooted).
RECURSIVE CleanElems(_, _, _)
CleanElems(elems, stack, rooted) ==
    IF Len(elems) = 0 THEN stack
    ELSE LET e == elems[1]
             rest == Tail(elems)
         IN  IF e = <<>> \/ e = <<Dot>>
             THEN CleanElems(rest, stack, rooted)
             ELSE IF e = <<Dot, Dot>>
             THEN IF Len(stack) > 0 /\ stack[Len(stack)] # <<Dot, Dot>>
                  THEN CleanElems(rest, SubSeq(stack, 1, Len(stack) - 1), rooted)
                  ELSE IF rooted
                  THEN CleanElems(rest, stack, rooted)
                  ELSE CleanElems(rest, Append(stack, e), rooted)
             ELSE CleanElems(rest, Append(stack, e), rooted)

\* path.Clean
Clean(s) ==
    IF Len(s) = 0 THEN <<Dot>>
    ELSE LET rooted == s[1] = Slash
             body == JoinWith(CleanElems(SplitPath(s), <<>>, rooted))
             out == IF rooted THEN <<Slash>> \o body ELSE body
         IN  IF Len(out) = 0 THEN <<Dot>> ELSE out

\* path.Join of two elements
Join(a, b) ==
    IF Len(a) = 0 /\ Len(b) = 0 THEN <<>>
    ELSE IF Len(a) = 0 THEN Clean(b)
    ELSE IF Len(b) = 0 THEN Clean(a)
    ELSE Clean(a \o <<Slash>> \o b)

LastSlash(s) ==
    IF \E i \in 1..Len(s) : s[i] = Slash
    THEN CHOOSE i \in 1..Len(s) : s[i] = Slash /\ \A j \in (i + 1)..Len(s) : s[j] # Slash
    ELSE 0

\* path.Dir
Dir(s) == Clean(SubSeq(s, 1, LastSlash(s)))

RECURSIVE StripTrailingSlashes(_)
StripTrailingSlashes(s) ==
    IF Len(s) > 0 /\ s[Len(s)] = Slash
    THEN StripTrailingSlashes(SubSeq(s, 1, Len(s) - 1))
    ELSE s

\* path.Base
Base(s) ==
    IF Len(s) = 0 THEN <<Dot>>
    ELSE LET t == StripTrailingSlashes(s)
             u == Drop(t, LastSlash(t))
         IN  IF Len(u) = 0 THEN <<Slash>> ELSE u

----------------------------------------------------------------------------
(* The asset file (file.go) and the byte reader behind its cursor *)

ModeDir     == "dir"
ModeRegular == "regular"

ErrNil        == "nil"
ErrNotExist   == "os.ErrNotExist"
ErrInvalid    == "os.ErrInvalid"
ErrEOF        == "io.EOF"
ErrWhence     == "bytes.Reader.Seek: invalid whence"
ErrNegative   == "bytes.Reader.Seek: negative position"
ErrPanic      == "panic: makeslice: cap out of range"

NilBuf  == [nil |-> TRUE]      \* a nil *bytes.Reader
NilInfo == [nil |-> TRUE]      \* a nil *File in an os.FileInfo
NoFile  == <<>>                \* a nil http.File

\* bytes.NewReader(b): a reader over b at index 0
NewReader(b) == [s |-> b, i |-> 0]

\* File.IsDir
IsDir(f) == f.FileMode = ModeDir

\* The os.FileInfo view of a File: Name, Mode, ModTime, IsDir, Size.
Entry(f) ==
    [Name |-> Base(f.Path), Mode |-> f.FileMode, ModTime |-> f.MTime,
     IsDir |-> IsDir(f), Size |-> Len(f.Data)]

\* bytes.Reader.Read into a buffer of n bytes: the outcomes.  At the end of
\* the data it reports io.EOF; older releases of the bytes package return
\* (0, nil) for an empty buffer before they look at the position.
ReaderRead(r, n) ==
    IF r.i >= Len(r.s)
    THEN {[r |-> r, n |-> 0, data |-> <<>>, err |-> ErrEOF]}
         \cup (IF n = 0 THEN {[r |-> r, n |-> 0, data |-> <<>>, err |-> ErrNil]} ELSE {})
    ELSE LET k == Min(n, Len(r.s) - r.i)
         IN  {[r |-> [r EXCEPT !.i = r.i + k], n |-> k,
               data |-> SubSeq(r.s, r.i + 1, r.i + k), err |-> ErrNil]}

\* bytes.Reader.Seek
ReaderSeek(r, offset, whence) ==
    IF whence \notin {0, 1, 2}
    THEN [r |-> r, pos |-> 0, err |-> ErrWhence]
    ELSE LET abs == IF whence = 0 THEN offset
                    ELSE IF whence = 1 THEN r.i + offset
                    ELSE Len(r.s) + offset
         IN  IF abs < 0
             THEN [r |-> r, pos |-> 0, err |-> ErrNegative]
             ELSE [r |-> [r EXCEPT !.i = abs], pos |-> abs, err |-> ErrNil]

\* The cursor a Read or Seek works on: created when f.buf is nil.
LazyBuf(f) == IF f.buf = NilBuf THEN NewReader(f.Data) ELSE f.buf

\* A Close that forgets to drop the cursor.
FileCloseKeepsCursor(f) == [f |-> f, err |-> ErrNil]

\* File.Close
FileClose(f) == [f |-> [f EXCEPT !.buf = NilBuf], err |-> ErrNil]

\* File.Stat: the file itself, as an os.FileInfo
FileStat(f) == [info |-> Entry(f), err |-> ErrNil]

\* File.Read: the outcomes
FileRead(f, n) ==
    {[f |-> [f EXCEPT !.buf = o.r], n |-> o.n, data |-> o.data, err |-> o.err] :
        o \in ReaderRead(LazyBuf(f), n)}

\* File.Seek
FileSeek(f, offset, whence) ==
    LET o == ReaderSeek(LazyBuf(f), offset, whence)
    IN  [f |-> [f EXCEPT !.buf = o.r], pos |-> o.pos, err |-> o.err]

----------------------------------------------------------------------------
(* The file system (filesystem.go) *)

\* FileSystem.NewFile
NewFile(path, filemode, mtime, data) ==
    [Path |-> path, FileMode |-> filemode, MTime |-> mtime, Data |-> data,
     buf |-> NilBuf]

\* An Open that hands out the stored cursor where one exists.
FileSystemOpenKeepsCursor(files, path) ==
    IF path \in DOMAIN files
    THEN IF ~IsDir(files[path]) /\ files[path].buf = NilBuf
         THEN [files |-> [files EXCEPT ![path].buf = NewReader(files[path].Data)],
               ret |-> path, err |-> ErrNil]
         ELSE [files |-> files, ret |-> path, err |-> ErrNil]
    ELSE [files |-> files, ret |-> NoFile, err |-> ErrNotExist]

\* FileSystem.Open.  ret := fi copies the pointer, not the File: the handle
\* returned is the object stored in Files, and its buf is the one replaced.
FileSystemOpen(files, path) ==
    IF path \in DOMAIN files
    THEN IF ~IsDir(files[path])
         THEN [files |-> [files EXCEPT ![path].buf = NewReader(files[path].Data)],
               ret |-> path, err |-> ErrNil]
         ELSE [files |-> files, ret |-> path, err |-> ErrNil]
    ELSE [files |-> files, ret |-> NoFile, err |-> ErrNotExist]

\* The map lookup f.Files[k] as an os.FileInfo: a nil *File when k is no key.
InfoAt(files, k) == IF k \in DOMAIN files THEN Entry(files[k]) ELSE NilInfo

\* A readDir that answers an unknown directory with an empty listing.
readDirLenient(dirs, files, p, index, count) ==
    IF p \in DOMAIN dirs
    THEN LET d == dirs[p]
             maxl == IF index + count > Len(d) THEN Len(d) ELSE index + count
         IN  IF maxl - index < 0
             THEN [list |-> <<>>, err |-> ErrPanic]
             ELSE [list |-> [j \in 1..(maxl - index) |->
                                InfoAt(files, Join(p, d[index + j]))],
                   err |-> ErrNil]
    ELSE [list |-> <<>>, err |-> ErrNil]

\* FileSystem.readDir.  make([]os.FileInfo, 0, maxl-index) panics when
\* maxl-index is negative.
readDir(dirs, files, p, index, count) ==
    IF p \in DOMAIN dirs
    THEN LET d == dirs[p]
             maxl == IF index + count > Len(d) THEN Len(d) ELSE index + count
         IN  IF maxl - index < 0
             THEN [list |-> <<>>, err |-> ErrPanic]
             ELSE [list |-> [j \in 1..(maxl - index) |->
                                InfoAt(files, Join(p, d[index + j]))],
                   err |-> ErrNil]
    ELSE [list |-> <<>>, err |-> ErrNotExist]

\* A Readdir without the IsDir check.
FileReaddirNoCheck(dirs, files, f, index, count) ==
    readDir(dirs, files, f.Path, index, count)

\* File.Readdir.  The call in the source, f.fs.readDir(f.Path), passes no
\* index; the caller of this operator supplies one.
FileReaddir(dirs, files, f, index, count) ==
    IF IsDir(f)
    THEN readDir(dirs, files, f.Path, index, count)
    ELSE [list |-> <<>>, err |-> ErrInvalid]

----------------------------------------------------------------------------
(* The run-time file system and its callers *)

Callers == {1, 2}

\* File contents: "hi!..." cut to every length up to MaxLen.  The bytes are
\* distinct, so the bytes a read returns tell where it read them.
Content == [k \in 1..MaxLen |-> 103 + k]

ByteSeqs == {Take(Content, n) : n \in 0..MaxLen}

PRoot == <<Slash>>
PFile == <<Slash, "b", Dot, "t", "x", "t">>
PSub  == <<Slash, "c">>
PNone == <<Slash, "z">>

\* The paths callers ask for: the registered ones and one that is not.
AskPaths == {PRoot, PFile, PSub, PNone}

\* The paths callers open in the runs that follow cursors.
OpenPaths == {PRoot, PFile, PNone}

SomeTime == <<1, 5>>

\* The file system of the generated initialisation for a directory holding
\* b.txt and an empty subdirectory c, rooted at "/".
SampleFiles(data) ==
    (PRoot :> NewFile(PRoot, ModeDir, SomeTime, <<>>))
    @@ (PFile :> NewFile(PFile, ModeRegular, SomeTime, data))
    @@ (PSub :> NewFile(PSub, ModeDir, SomeTime, <<>>))

SampleDirs ==
    (PRoot :> <<Drop(PFile, 1), Drop(PSub, 1)>>) @@ (PSub :> <<>>)

NoOp ==
    [op |-> "none", caller |-> 0, path |-> NoFile, arg |-> 0, whence |-> 0,
     n |-> 0, data |-> <<>>, err |-> ErrNil, pos |-> 0, list |-> <<>>,
     info |-> NilInfo, ret |-> NoFile, afterClose |-> FALSE, closedAt |-> 0]

NoHist == [pure |-> FALSE, acc |-> <<>>, reads |-> 0, eof |-> FALSE, reopened |-> FALSE]

RegularPaths(files) == {p \in DOMAIN files : ~IsDir(files[p])}

\* The position of a file's cursor; a cursor not yet created starts at 0.
Pos(f) == IF f.buf = NilBuf THEN 0 ELSE f.buf.i

GenIdle ==
    /\ fsFilesMap = <<>>
    /\ fsDirsMap = <<>>
    /\ StripPrefix = <<>>
    /\ Compressed = FALSE
    /\ adds = 0
    /\ addErr = ErrNil
    /\ written = FALSE
    /\ outDirs = <<>>
    /\ outFiles = <<>>

Init ==
    /\ \E data \in ByteSeqs : Files = SampleFiles(data)
    /\ Dirs = SampleDirs
    /\ handle = [c \in Callers |-> NoFile]
    /\ last = NoOp
    /\ hist = [p \in RegularPaths(Files) |-> NoHist]
    /\ panicked = FALSE
    /\ GenIdle

\* c calls fs.Open(p) and keeps what it returns.
Open(c, p) ==
    /\ ~panicked
    /\ LET o == FileSystemOpen(Files, p)
       IN  /\ Files' = o.files
           /\ handle' = [handle EXCEPT ![c] = o.ret]
           /\ last' = [NoOp EXCEPT !.op = "Open", !.caller = c, !.path = p,
                                   !.ret = o.ret, !.err = o.err]
           /\ hist' = IF p \in DOMAIN hist
                      THEN [hist EXCEPT ![p] = [NoHist EXCEPT !.pure = TRUE,
                                                  !.reopened = Pos(Files[p]) > 0]]
                      ELSE hist
    /\ UNCHANGED <<Dirs, panicked>>
    /\ UNCHANGED genVars

\* Whether the operation before this one was a Close of the same file.
AfterClose(p) == last.op = "Close" /\ last.path = p

\* c calls Close on the file it holds; last.pos keeps where the cursor was.
Close(c) ==
    /\ ~panicked
    /\ handle[c] # NoFile
    /\ LET p == handle[c]
           o == FileClose(Files[p])
       IN  /\ Files' = [Files EXCEPT ![p] = o.f]
           /\ last' = [NoOp EXCEPT !.op = "Close", !.caller = c, !.path = p,
                                   !.err = o.err, !.pos = Pos(Files[p]),
                                   !.afterClose = AfterClose(p)]
           /\ hist' = IF p \in DOMAIN hist THEN [hist EXCEPT ![p] = NoHist] ELSE hist
    /\ UNCHANGED <<Dirs, handle, panicked>>
    /\ UNCHANGED genVars

\* c calls Stat on the file it holds.
Stat(c) ==
    /\ ~panicked
    /\ handle[c] # NoFile
    /\ LET p == handle[c]
           o == FileStat(Files[p])
       IN  last' = [NoOp EXCEPT !.op = "Stat", !.caller = c, !.path = p,
                                !.info = o.info, !.err = o.err]
    /\ UNCHANGED <<Files, Dirs, handle, hist, panicked>>
    /\ UNCHANGED genVars

\* c calls Read with a buffer of n bytes on the file it holds.
Read(c, n) ==
    /\ ~panicked
    /\ handle[c] # NoFile
    /\ LET p == handle[c]
       IN  \E o \in FileRead(Files[p], n) :
             /\ Files' = [Files EXCEPT ![p] = o.f]
             /\ last' = [NoOp EXCEPT !.op = "Read", !.caller = c, !.path = p,
                                     !.arg = n, !.n = o.n, !.data = o.data,
                                     !.err = o.err,
                                     !.afterClose = AfterClose(p),
                                     !.closedAt = IF AfterClose(p) THEN last.pos ELSE 0]
             /\ hist' = IF p \in DOMAIN hist /\ hist[p].pure
                        THEN IF n = 0
                             THEN [hist EXCEPT ![p] = NoHist]
                             ELSE IF hist[p].eof
                             THEN hist
                             ELSE IF o.err = ErrEOF
                             THEN [hist EXCEPT ![p].eof = TRUE]
                             ELSE [hist EXCEPT ![p].acc = @ \o o.data,
                                               ![p].reads = @ + 1]
                        ELSE hist
    /\ UNCHANGED <<Dirs, handle, panicked>>
    /\ UNCHANGED genVars

\* c calls Seek on the file it holds.  Seeks are explored up to MaxPast
\* positions past the end of the data.
Seek(c, offset, whence) ==
    /\ ~panicked
    /\ handle[c] # NoFile
    /\ LET p == handle[c]
           o == FileSeek(Files[p], offset, whence)
       IN  /\ o.pos <= Len(Files[p].Data) + MaxPast
           /\ Files' = [Files EXCEPT ![p] = o.f]
           /\ last' = [NoOp EXCEPT !.op = "Seek", !.caller = c, !.path = p,
                                   !.arg = offset, !.whence = whence,
                                   !.pos = o.pos, !.err = o.err,
                                   !.afterClose = AfterClose(p),
                                   !.closedAt = IF AfterClose(p) THEN last.pos ELSE 0]
           /\ hist' = IF p \in DOMAIN hist THEN [hist EXCEPT ![p] = NoHist] ELSE hist
    /\ UNCHANGED <<Dirs, handle, panicked>>
    /\ UNCHANGED genVars

\* c calls Readdir(count) on the file it holds; index is the start index the
\* call hands to readDir.
Readdir(c, index, count) ==
    /\ ~panicked
    /\ handle[c] # NoFile
    /\ LET p == handle[c]
           o == FileReaddir(Dirs, Files, Files[p], index, count)
       IN  /\ last' = [NoOp EXCEPT !.op = "Readdir", !.caller = c, !.path = p,
                                   !.n = count,
                                   !.list = o.list, !.err = o.err]
           /\ panicked' = (o.err = ErrPanic)
    /\ UNCHANGED <<Files, Dirs, handle, hist>>
    /\ UNCHANGED genVars

\* A call of fs.readDir(p, index, count).
ReadDir(p, index, count) ==
    /\ ~panicked
    /\ LET o == readDir(Dirs, Files, p, index, count)
       IN  /\ last' = [NoOp EXCEPT !.op = "readDir", !.path = p,
                                   !.arg = index, !.n = count,
                                   !.list = o.list, !.err = o.err]
           /\ panicked' = (o.err = ErrPanic)
    /\ UNCHANGED <<Files, Dirs, handle, hist>>
    /\ UNCHANGED genVars

\* Callers that open files and read, seek, stat, list and close them.
Next ==
    \/ \E c \in Callers, p \in OpenPaths : Open(c, p)
    \/ \E c \in Callers : Close(c)
    \/ \E c \in Callers : Stat(c)
    \/ \E c \in Callers, n \in 0..MaxBuf : Read(c, n)
    \/ \E c \in Callers, offset \in (-MaxOff)..MaxOff, whence \in 0..3 :
            Seek(c, offset, whence)
    \/ \E c \in Callers, index \in 0..MaxIndex, count \in (-1)..MaxCount :
            Readdir(c, index, count)

Spec == Init /\ [][Next]_vars

\* Callers that open paths and list directories.
DirNext ==
    \/ \E c \in Callers, p \in AskPaths : Open(c, p)
    \/ \E c \in Callers : Stat(c)
    \/ \E c \in Callers, index \in 0..MaxIndex, count \in (-1)..MaxCount :
            Readdir(c, index, count)
    \/ \E p \in AskPaths, index \in 0..MaxIndex, count \in (-1)..MaxCount :
            ReadDir(p, index, count)

DirSpec == Init /\ [][DirNext]_vars

----------------------------------------------------------------------------
(* Claims about the run-time file system *)

OnDir(l)     == l.path \in DOMAIN Files /\ IsDir(Files[l.path])
OnRegular(l) == l.path \in DOMAIN Files /\ ~IsDir(Files[l.path])

\* C1: a read, seek or close through one caller's handle never changes the
\* read position of a regular file handle another caller got from its own Open.
C1_PrivateCursor ==
    [][\A c \in Callers :
          (/\ handle[c] \in RegularPaths(Files)
           /\ handle'[c] = handle[c]
           /\ last'.caller # c
           /\ last'.op \in {"Read", "Seek", "Close"})
          => Pos(Files'[handle[c]]) = Pos(Files[handle[c]])]_vars

\* C2: after Open(P), whatever was done to P before, reads with non-empty
\* buffers return P's data from position 0 on, each read before the end
\* returns at least one byte, and at EOF the bytes read are exactly P's data.
C2_FullRead ==
    \A p \in DOMAIN hist :
        hist[p].pure =>
            /\ Files[p].buf # NilBuf
            /\ hist[p].acc = Take(Files[p].Data, Len(hist[p].acc))
            /\ Pos(Files[p]) = Len(hist[p].acc)
            /\ hist[p].reads <= Len(hist[p].acc)
            /\ hist[p].eof => hist[p].acc = Files[p].Data

\* C2's case: a file whose cursor had advanced is opened again and read to
\* EOF in two reads or more.
C2_Witness ==
    \E p \in DOMAIN hist :
        /\ hist[p].pure /\ hist[p].eof /\ hist[p].reopened
        /\ hist[p].reads >= 2
        /\ hist[p].acc = Files[p].Data

\* C4: readDir on a registered directory with n children, given a count
\* k >= 0, never fails or panics; from an index i >= n it returns nothing,
\* and from i < n it returns the entries from i on, at most k of them.
C4_ListClamped ==
    (last.op = "readDir" /\ last.path \in DOMAIN Dirs /\ last.n >= 0) =>
        LET n == Len(Dirs[last.path])
            i == last.arg
            k == last.n
        IN  /\ last.err = ErrNil
            /\ i >= n => last.list = <<>>
            /\ i < n => Len(last.list) = Min(k, n - i)

C6_NotFound ==
    /\ [](/\ (last.op = "Open" /\ last.path \notin DOMAIN Files) =>
                /\ last.err = ErrNotExist
                /\ last.ret = NoFile
                /\ handle[last.caller] = NoFile
          /\ (last.op = "readDir" /\ last.path \notin DOMAIN Dirs) =>
                last.err = ErrNotExist /\ last.list = <<>>)
    /\ [][((last'.op = "Open" /\ last'.path \notin DOMAIN Files)
            \/ (last'.op = "readDir" /\ last'.path \notin DOMAIN Dirs))
          => (Files' = Files /\ Dirs' = Dirs)]_vars

\* C6's case: readDir of an unregistered path, after a file has been opened.
C6_Witness ==
    /\ last.op = "readDir" /\ last.path \notin DOMAIN Dirs
    /\ last.err = ErrNotExist
    /\ \E p \in DOMAIN Files : Files[p].buf # NilBuf

\* C10: Close on a regular file handle succeeds, also when repeated, and
\* drops the cursor; the Read or Seek that follows a Close works on a new
\* cursor at position 0, wherever the cursor was before the Close.
C10_CloseThenFresh ==
    /\ (last.op = "Close" /\ OnRegular(last)) =>
            last.err = ErrNil /\ Files[last.path].buf = NilBuf
    /\ (last.op = "Read" /\ last.afterClose /\ OnRegular(last)) =>
            LET data == Files[last.path].Data
            IN  /\ last.data = Take(data, last.arg)
                /\ last.n = Len(last.data)
                /\ Pos(Files[last.path]) = last.n
                /\ last.err \in {ErrNil, ErrEOF}
                /\ (last.arg > 0 /\ Len(data) > 0) => last.err = ErrNil
    /\ (last.op = "Seek" /\ last.afterClose /\ OnRegular(last)) =>
            LET target == IF last.whence = 2
                          THEN Len(Files[last.path].Data) + last.arg
                          ELSE last.arg
            IN  /\ last.err \in {ErrNil, ErrNegative, ErrWhence}
                /\ (last.whence \in {0, 1, 2} /\ target >= 0) =>
                        last.err = ErrNil /\ last.pos = target

\* C10's case: a Read that returns bytes right after a Close that found the
\* cursor past position 0.
C10_Witness ==
    /\ last.op = "Read" /\ last.afterClose /\ OnRegular(last)
    /\ last.closedAt > 0
    /\ last.n > 0

----------------------------------------------------------------------------
(* The directory tree the generator is run on *)

NameA   == <<"a">>
NameB   == <<"b">>
NameC   == <<"c">>
NameTxt == <<"b", Dot, "t", "x", "t">>
HereDir == <<Dot>>

PathA    == NameA
PathATxt == NameA \o <<Slash>> \o NameTxt
PathAC   == NameA \o <<Slash>> \o NameC
PathB    == NameB
PathBTxt == NameB \o <<Slash>> \o NameTxt

\* What os.Stat reports of a path, and what Readdir(-1) lists in it.
FileInfo(name, isDir, modTime) ==
    [Name |-> name, IsDir |-> isDir,
     Mode |-> IF isDir THEN ModeDir ELSE ModeRegular, ModTime |-> modTime]

\* The working directory: a/ holds b.txt ("hi") and the empty directory c/,
\* b/ holds b.txt ("h").  Modification times are <<seconds, nanoseconds>>.
RealInfo ==
    (HereDir :> FileInfo(HereDir, TRUE, <<1, 0>>))
    @@ (PathA :> FileInfo(NameA, TRUE, <<1, 5>>))
    @@ (PathATxt :> FileInfo(NameTxt, FALSE, <<0, 7>>))
    @@ (PathAC :> FileInfo(NameC, TRUE, <<1, 999999999>>))
    @@ (PathB :> FileInfo(NameB, TRUE, <<0, 0>>))
    @@ (PathBTxt :> FileInfo(NameTxt, FALSE, <<1, 1>>))

RealChildren ==
    (HereDir :> <<NameA, NameB>>)
    @@ (PathA :> <<NameTxt, NameC>>)
    @@ (PathAC :> <<>>)
    @@ (PathB :> <<NameTxt>>)

RealData ==
    (PathATxt :> <<104, 105>>) @@ (PathBTxt :> <<104>>)

\* The arguments Add is called with; the last names nothing that exists.
AddArgs ==
    {PathA, PathA \o <<Slash>>, PathATxt, PathAC, PathB, HereDir, <<"z">>}

\* The values StripPrefix is given.
Prefixes == {<<>>, PathA, PathA \o <<Slash>>, PathB, HereDir}

----------------------------------------------------------------------------
(* The generator *)

\* m[k] = v on a Go map
MapSet(m, k, v) == (k :> v) @@ m

\* m[k] on a Go map of slices: nil where k is no key
MapGet(m, k) == IF k \in DOMAIN m THEN m[k] ELSE <<>>

\* Generator.addPath, on the state st = [files, dirs, err]: the path is
\* recorded; a directory gets an empty listing and its children are added
\* in turn, stopping at the first error; a regular file's name is appended
\* to the listing of parent.
RECURSIVE addPath(_, _, _)
RECURSIVE addChildren(_, _, _)
addPath(st, parent, info) ==
    LET p == Join(parent, info.Name)
        files == MapSet(st.files, p, info)
    IN  IF info.IsDir
        THEN IF p \notin DOMAIN RealChildren
             THEN [files |-> files, dirs |-> st.dirs, err |-> ErrNotExist]
             ELSE addChildren([files |-> files,
                               dirs |-> MapSet(st.dirs, p, <<>>),
                               err |-> ErrNil],
                              p, RealChildren[p])
        ELSE [files |-> files,
              dirs |-> MapSet(st.dirs, parent, Append(MapGet(st.dirs, parent), info.Name)),
              err |-> ErrNil]

\* The loop of addPath over what Readdir(-1) listed.
addChildren(st, p, names) ==
    IF Len(names) = 0 THEN st
    ELSE LET r == addPath(st, p, RealInfo[Join(p, names[1])])
         IN  IF r.err # ErrNil THEN r ELSE addChildren(r, p, Tail(names))

\* Generator.Add
GeneratorAdd(st, arg) ==
    LET p == Clean(arg)
    IN  IF p \notin DOMAIN RealInfo
        THEN [files |-> st.files, dirs |-> st.dirs, err |-> ErrNotExist]
        ELSE addPath(st, Dir(p), RealInfo[p])

NanosPerSecond == 1000000000

\* Time.Unix and Time.UnixNano of a time <<seconds, nanoseconds>>
UnixOf(t)     == t[1]
UnixNanoOf(t) == t[1] * NanosPerSecond + t[2]

\* time.Unix(sec, nsec): nsec outside [0, 1e9) is carried into the seconds.
TimeUnix(sec, nsec) ==
    IF nsec < 0 \/ nsec >= NanosPerSecond
    THEN <<sec + (nsec \div NanosPerSecond), nsec % NanosPerSecond>>
    ELSE <<sec, nsec>>

\* The MTime the emitted literal evaluates to:
\* time.Unix(mt.Unix(), mt.UnixNano()).
EmittedMTime(mt) == TimeUnix(UnixOf(mt), UnixNanoOf(mt))

\* The gzip stream of data, reduced to its magic bytes and the payload.
Gzip(data) == <<31, 139>> \o data

\* The bytes Write embeds for file k.
EmbeddedData(k, compressed) ==
    IF compressed THEN Gzip(RealData[k]) ELSE RealData[k]

\* strings.TrimPrefix(k, x.StripPrefix), with "/" for the empty result
Strip(k, prefix) ==
    LET kk == TrimPrefix(k, prefix)
    IN  IF Len(kk) = 0 THEN <<Slash>> ELSE kk

\* The ways a range over map m leaves one source key per emitted key: where
\* two keys strip to the same string, the iteration order decides.
Selections(m, prefix) ==
    LET out == {Strip(k, prefix) : k \in DOMAIN m}
    IN  IF \A k1, k2 \in DOMAIN m : Strip(k1, prefix) = Strip(k2, prefix) => k1 = k2
        THEN {[kk \in out |-> CHOOSE k \in DOMAIN m : Strip(k, prefix) = kk]}
        ELSE {sel \in [out -> DOMAIN m] : \A kk \in out : Strip(sel[kk], prefix) = kk}

\* The Dirs literal of Write: keys and child names both stripped.
EmittedDirs(dirs, prefix, sel) ==
    [kk \in DOMAIN sel |->
        [i \in 1..Len(dirs[sel[kk]]) |-> Strip(dirs[sel[kk]][i], prefix)]]

\* The Files literal of Write.
EmittedFiles(files, prefix, compressed, sel) ==
    [kk \in DOMAIN sel |->
        LET v == files[sel[kk]]
        IN  [Path |-> kk, FileMode |-> v.Mode, MTime |-> EmittedMTime(v.ModTime),
             Data |-> IF v.IsDir THEN <<>> ELSE EmbeddedData(sel[kk], compressed),
             buf |-> NilBuf]]

GenInit ==
    /\ Files = <<>>
    /\ Dirs = <<>>
    /\ handle = [c \in Callers |-> NoFile]
    /\ last = NoOp
    /\ hist = <<>>
    /\ panicked = FALSE
    /\ fsFilesMap = <<>>
    /\ fsDirsMap = <<>>
    /\ StripPrefix \in Prefixes
    /\ Compressed \in BOOLEAN
    /\ adds = 0
    /\ addErr = ErrNil
    /\ written = FALSE
    /\ outDirs = <<>>
    /\ outFiles = <<>>

\* A call of x.Add(arg).
Add(arg) ==
    /\ ~written
    /\ adds < MaxAdds
    /\ LET r == GeneratorAdd([files |-> fsFilesMap, dirs |-> fsDirsMap, err |-> ErrNil], arg)
       IN  /\ fsFilesMap' = r.files
           /\ fsDirsMap' = r.dirs
           /\ addErr' = r.err
    /\ adds' = adds + 1
    /\ UNCHANGED <<StripPrefix, Compressed, written, outDirs, outFiles>>
    /\ UNCHANGED rtVars

\* A call of x.Write(wr): the file system the emitted init() builds.
Write ==
    /\ ~written
    /\ \E sd \in Selections(fsDirsMap, StripPrefix),
          sf \in Selections(fsFilesMap, StripPrefix) :
            /\ outDirs' = EmittedDirs(fsDirsMap, StripPrefix, sd)
            /\ outFiles' = EmittedFiles(fsFilesMap, StripPrefix, Compressed, sf)
    /\ written' = TRUE
    /\ UNCHANGED <<fsFilesMap, fsDirsMap, StripPrefix, Compressed, adds, addErr>>
    /\ UNCHANGED rtVars

GenNext ==
    \/ \E arg \in AddArgs : Add(arg)
    \/ Write

GenSpec == GenInit /\ [][GenNext]_vars

----------------------------------------------------------------------------
(* Claims about the generator *)

NoNilInfo(list) == \A j \in 1..Len(list) : list[j] # NilInfo

NoDuplicates(list) == \A i, j \in 1..Len(list) : list[i] = list[j] => i = j

\* C3: after successful Adds every directory the collector registered lists
\* all of its immediate children, files and subdirectories; and for the
\* root a (b.txt and the empty c) with StripPrefix "a", the emitted listing
\* of "/" is <<b.txt, c>>, that of "/c" is empty, and readDir("/", 0, 2)
\* returns both children.
C3_ListsAllChildren ==
    /\ (adds > 0 /\ addErr = ErrNil) =>
            \A p \in DOMAIN fsFilesMap :
                fsFilesMap[p].IsDir =>
                    /\ p \in DOMAIN fsDirsMap
                    /\ Range(fsDirsMap[p]) = Range(RealChildren[p])
                    /\ Len(fsDirsMap[p]) = Len(RealChildren[p])
    /\ (written /\ adds = 1 /\ StripPrefix = PathA
            /\ DOMAIN fsFilesMap = {PathA, PathATxt, PathAC}) =>
            /\ DOMAIN outFiles = {<<Slash>>, <<Slash>> \o NameTxt, <<Slash>> \o NameC}
            /\ <<Slash>> \in DOMAIN outDirs
            /\ outDirs[<<Slash>>] = <<NameTxt, NameC>>
            /\ (<<Slash>> \o NameC) \in DOMAIN outDirs
            /\ outDirs[<<Slash>> \o NameC] = <<>>
            /\ LET r == readDir(outDirs, outFiles, <<Slash>>, 0, 2)
               IN  r.err = ErrNil /\ Len(r.list) = 2 /\ NoNilInfo(r.list)

\* C7: in what Write emits, every child name of every listing, joined to
\* the listing's key, is a key of the emitted Files; and when StripPrefix is
\* the whole path of a registered directory, that directory is emitted as
\* "/", a key of Files and the Dirs key of its listing.
C7_EmittedClosed ==
    written =>
        /\ \A d \in DOMAIN outDirs :
              \A i \in 1..Len(outDirs[d]) : Join(d, outDirs[d][i]) \in DOMAIN outFiles
        /\ (StripPrefix \in DOMAIN fsFilesMap /\ fsFilesMap[StripPrefix].IsDir) =>
              /\ <<Slash>> \in DOMAIN outFiles
              /\ <<Slash>> \in DOMAIN outDirs

\* C8: after successful Adds, overlapping ones included, no listing holds a
\* name twice, and every key of a non-empty listing is a registered path.
C8_NoDuplicateChildren ==
    (adds > 0 /\ addErr = ErrNil) =>
        \A d \in DOMAIN fsDirsMap :
            /\ NoDuplicates(fsDirsMap[d])
            /\ Len(fsDirsMap[d]) > 0 => d \in DOMAIN fsFilesMap

\* C9: the MTime the emitted literal rebuilds from its two integers is the
\* modification time the collector recorded for that path.
C9_MTimeRoundTrip ==
    written =>
        \A k \in DOMAIN fsFilesMap :
            LET kk == Strip(k, StripPrefix)
            IN  (kk \in DOMAIN outFiles /\ outFiles[kk].Path = kk
                    /\ \A k2 \in DOMAIN fsFilesMap : Strip(k2, StripPrefix) = kk => k2 = k)
                => outFiles[kk].MTime = fsFilesMap[k].ModTime

====
